---------------------------- MODULE Spec2Model ----------------------------
(***************************************************************************)
(* A model of ping.c: the raw-mode terminal session, the bouncing entity   *)
(* (entity_move / entity_draw), the modal command interpreter              *)
(* (handle_command), the SIGWINCH handler and the main loop.               *)
(*                                                                         *)
(* Numbers.  The program computes with long double.  The model computes    *)
(* exactly, in fixed point: every coordinate, size and velocity is an      *)
(* integer number of 1/Unit cells.  0.005 is Unit/200; a halving is exact  *)
(* as long as the component is even, so Unit carries MaxHalvings spare     *)
(* binary digits and a halving that would need more is not taken.          *)
(***************************************************************************)
EXTENDS Integers, Sequences, FiniteSets, TLC

VARIABLES
    pc,           \* position of main(): the call it is about to make
    tty_context,  \* the global tty_ctx_t: rows, cols (fd is constant, attrs is `saved')
    saved,        \* tty_context.attrs: which attributes tcgetattr captured
    term,         \* the attributes the terminal itself currently has
    restores,     \* how many times the captured attributes were put back
    graphics,     \* what start_graphics / end_graphics left on the screen
    handler,      \* TRUE once resize_window is installed for SIGWINCH
    ball,         \* main's entity_t
    command,      \* main's command_state_t
    c,            \* the last value getchar returned in handle_command
    pre,          \* the arguments of the last entity_move / handle_command call
    pending,      \* entity_draw's loop: the cells it has still to visit, in order
    painted,      \* the cells painted since the screen was last cleared
    info,         \* what the last draw_info_line printed
    frames,       \* calls made so far (loop iterations)
    resizes,      \* SIGWINCH deliveries so far
    exit_status   \* -1 while the process runs, else its exit status

vars == << pc, tty_context, saved, term, restores, graphics, handler, ball,
           command, c, pre, pending, painted, info, frames, resizes, exit_status >>

---------------------------------------------------------------------------
(* Bounds of the model *)

MaxHalvings == 1
MaxFrames == 6
MaxCalls == 3
MaxResizes == 1

(* Fixed point: units per cell.  200 = 1/0.005 (DEFAULT_ENTITY_PROPERTIES). *)
Unit == 200 * (2 ^ MaxHalvings)

Cells(n) == n * Unit

---------------------------------------------------------------------------
(* C arithmetic *)

(* int / int, and (int)f64: both truncate toward zero *)
CDiv(a, b) == IF a >= 0 THEN a \div b ELSE -((-a) \div b)

ToInt(f) == CDiv(f, Unit)

---------------------------------------------------------------------------
(* vec2 *)

vec2_add(a, b) == [x |-> a.x + b.x, y |-> a.y + b.y]

vec2_sub(a, b) == [x |-> a.x - b.x, y |-> a.y - b.y]

---------------------------------------------------------------------------
(* Viewport *)

DISPLAY_WIDTH(ctx) == ctx.cols - 1

DISPLAY_HEIGHT(ctx) == ctx.rows - 1

MAX_ENTITY_WIDTH(ctx) == CDiv(DISPLAY_WIDTH(ctx), 2)

MAX_ENTITY_HEIGHT(ctx) == CDiv(DISPLAY_HEIGHT(ctx), 2)

MIN_ENTITY_WIDTH == 1

MIN_ENTITY_HEIGHT == 1

MAX_ENTITY_DELTA_X(ctx) == DISPLAY_WIDTH(ctx)

MAX_ENTITY_DELTA_Y(ctx) == DISPLAY_HEIGHT(ctx)

MIN_ENTITY_DELTA_X == 0

MIN_ENTITY_DELTA_Y == 0

DEFAULT_ENTITY_PROPERTIES ==
    [ pos   |-> [x |-> Cells(1), y |-> Cells(60)],
      size  |-> [x |-> Cells(2), y |-> Cells(1)],
      delta |-> [x |-> Unit \div 200, y |-> Unit \div 200] ]

---------------------------------------------------------------------------
(* Boundary predicates; x and y are fixed-point, the bounds are ints *)

out_of_bounds_x(x, ctx) == Cells(1) > x \/ x >= Cells(DISPLAY_WIDTH(ctx))

out_of_bounds_y(y, ctx) == Cells(1) > y \/ y >= Cells(DISPLAY_HEIGHT(ctx))

out_of_bounds(p, ctx) == out_of_bounds_x(p.x, ctx) \/ out_of_bounds_y(p.y, ctx)

(* constrain_x with the lower clamp at 0 instead of 1 *)
constrain_x_from_zero(x, ctx) ==
    IF x < Cells(1) THEN 0
    ELSE IF x >= Cells(DISPLAY_WIDTH(ctx)) THEN Cells(DISPLAY_WIDTH(ctx) - 1)
    ELSE x

(* constrain_x clamping to the bound itself *)
constrain_x_to_bound(x, ctx) ==
    IF x < Cells(1) THEN Cells(1)
    ELSE IF x >= Cells(DISPLAY_WIDTH(ctx)) THEN Cells(DISPLAY_WIDTH(ctx))
    ELSE x

constrain_x(x, ctx) ==
    IF x < Cells(1) THEN Cells(1)
    ELSE IF x >= Cells(DISPLAY_WIDTH(ctx)) THEN Cells(DISPLAY_WIDTH(ctx) - 1)
    ELSE x

(* constrain_y clamping to the bound itself *)
constrain_y_to_bound(y, ctx) ==
    IF y < Cells(1) THEN Cells(1)
    ELSE IF y >= Cells(DISPLAY_HEIGHT(ctx)) THEN Cells(DISPLAY_HEIGHT(ctx))
    ELSE y

constrain_y(y, ctx) ==
    IF y < Cells(1) THEN Cells(1)
    ELSE IF y >= Cells(DISPLAY_HEIGHT(ctx)) THEN Cells(DISPLAY_HEIGHT(ctx) - 1)
    ELSE y

constrain(v, ctx) == [x |-> constrain_x(v.x, ctx), y |-> constrain_y(v.y, ctx)]

collision_x(x, ctx) == Cells(1) >= x \/ x >= Cells(DISPLAY_WIDTH(ctx))

collision_y(y, ctx) == Cells(1) >= y \/ y >= Cells(DISPLAY_HEIGHT(ctx))

collision(p, ctx) == collision_x(p.x, ctx) \/ collision_y(p.y, ctx)

---------------------------------------------------------------------------
(* entity_move: the entity after one physics step *)

(* Reflect negating the whole velocity, as vec2_negate does *)
Reflect_both(delta, p, ctx) == [x |-> -delta.x, y |-> -delta.y]

(* Reflect testing y before x *)
Reflect_y_first(delta, p, ctx) ==
    IF collision_y(p.y, ctx) THEN [x |-> delta.x, y |-> -delta.y]
                             ELSE [x |-> -delta.x, y |-> delta.y]

(* The velocity after a collision of point p: x is tested first, and y is *)
(* negated only when x did not collide                                     *)
Reflect(delta, p, ctx) ==
    IF collision_x(p.x, ctx) THEN [x |-> -delta.x, y |-> delta.y]
                             ELSE [x |-> delta.x, y |-> -delta.y]

entity_move(e, ctx) ==
    LET end     == vec2_add(e.pos, e.size)
        new_pos == vec2_add(e.pos, e.delta)
        new_end == vec2_add(end, e.delta)
    IN  IF collision(new_pos, ctx)
        THEN [ e EXCEPT !.delta = Reflect(e.delta, new_pos, ctx),
                        !.pos   = constrain(new_pos, ctx) ]
        ELSE IF collision(new_end, ctx)
        THEN [ e EXCEPT !.delta = Reflect(e.delta, new_end, ctx),
                        !.pos   = vec2_sub(constrain(new_end, ctx), e.size) ]
        ELSE [ e EXCEPT !.pos = new_pos ]

(* entity_draw: the set of cells <<x, y>> it paints *)
entity_draw(e, ctx) ==
    { cell \in (ToInt(e.pos.x) .. ToInt(e.pos.x + e.size.x))
               \X (ToInt(e.pos.y) .. ToInt(e.pos.y + e.size.y)) :
        /\ Cells(cell[1]) < e.pos.x + e.size.x
        /\ Cells(cell[2]) < e.pos.y + e.size.y
        /\ ~out_of_bounds([x |-> Cells(cell[1]), y |-> Cells(cell[2])], ctx) }

(* The cells entity_draw's two loops visit, in order: rows outside,        *)
(* columns inside, both starting at the truncated position                 *)
entity_cells(e) ==
    LET x0 == ToInt(e.pos.x)
        y0 == ToInt(e.pos.y)
        nx == Cardinality({ x \in x0 .. ToInt(e.pos.x + e.size.x) :
                              Cells(x) < e.pos.x + e.size.x })
        ny == Cardinality({ y \in y0 .. ToInt(e.pos.y + e.size.y) :
                              Cells(y) < e.pos.y + e.size.y })
    IN  [ i \in 1 .. (nx * ny) |-> << x0 + ((i - 1) % nx), y0 + ((i - 1) \div nx) >> ]

---------------------------------------------------------------------------
(* handle_command *)

NORMAL == "NORMAL"
RESIZE == "RESIZE"
SPEED == "SPEED"
QUIT == "QUIT"

command_state_t == {NORMAL, RESIZE, SPEED, QUIT}

(* What getchar can return: the five keys the program knows, "x" for any   *)
(* other byte, and EOF when no key is waiting (stdin is non-blocking).     *)
EOF == "EOF"

Keys == {"q", "n", "r", "s", "w", "x", EOF}

(* Doubled without the zero case: d * 2 *)
Doubled_plain(d) == 2 * d

(* (!d + d) * 2, with d in fixed point: !d is the int 1 when d is 0 *)
Doubled(d) == IF d = 0 THEN Cells(2) ELSE 2 * d

(* d /= 2 *)
Halved(d) == d \div 2

(* Grow with the guard off by one: <= in place of < *)
Grow_inclusive(e, ctx) ==
    IF e.size.x <= Cells(MAX_ENTITY_WIDTH(ctx)) /\ e.size.y <= Cells(MAX_ENTITY_HEIGHT(ctx))
    THEN [e EXCEPT !.size = [x |-> e.size.x + Cells(1), y |-> e.size.y + Cells(1)]]
    ELSE e

(* the entity after RESIZE, key w *)
Grow(e, ctx) ==
    IF e.size.x < Cells(MAX_ENTITY_WIDTH(ctx)) /\ e.size.y < Cells(MAX_ENTITY_HEIGHT(ctx))
    THEN [e EXCEPT !.size = [x |-> e.size.x + Cells(1), y |-> e.size.y + Cells(1)]]
    ELSE e

(* Shrink with the guard off by one: >= in place of > *)
Shrink_inclusive(e) ==
    IF e.size.x >= Cells(MIN_ENTITY_WIDTH) /\ e.size.y >= Cells(MIN_ENTITY_HEIGHT)
    THEN [e EXCEPT !.size = [x |-> e.size.x - Cells(1), y |-> e.size.y - Cells(1)]]
    ELSE e

(* Shrink refused only when both dimensions are at the minimum *)
Shrink_either(e) ==
    IF e.size.x > Cells(MIN_ENTITY_WIDTH) \/ e.size.y > Cells(MIN_ENTITY_HEIGHT)
    THEN [e EXCEPT !.size = [x |-> e.size.x - Cells(1), y |-> e.size.y - Cells(1)]]
    ELSE e

(* the entity after RESIZE, key s *)
Shrink(e) ==
    IF e.size.x > Cells(MIN_ENTITY_WIDTH) /\ e.size.y > Cells(MIN_ENTITY_HEIGHT)
    THEN [e EXCEPT !.size = [x |-> e.size.x - Cells(1), y |-> e.size.y - Cells(1)]]
    ELSE e

(* Faster doubling delta.x only *)
Faster_x_only(e, ctx) ==
    IF e.delta.x < Cells(MAX_ENTITY_DELTA_X(ctx)) /\ e.delta.y < Cells(MAX_ENTITY_DELTA_Y(ctx))
    THEN [e EXCEPT !.delta = [x |-> Doubled(e.delta.x), y |-> e.delta.y]]
    ELSE e

(* Faster with the guard on the doubled velocity instead of the current *)
Faster_guards_result(e, ctx) ==
    IF Doubled(e.delta.x) < Cells(MAX_ENTITY_DELTA_X(ctx))
       /\ Doubled(e.delta.y) < Cells(MAX_ENTITY_DELTA_Y(ctx))
    THEN [e EXCEPT !.delta = [x |-> Doubled(e.delta.x), y |-> Doubled(e.delta.y)]]
    ELSE e

(* the entity after SPEED, key w *)
Faster(e, ctx) ==
    IF e.delta.x < Cells(MAX_ENTITY_DELTA_X(ctx)) /\ e.delta.y < Cells(MAX_ENTITY_DELTA_Y(ctx))
    THEN [e EXCEPT !.delta = [x |-> Doubled(e.delta.x), y |-> Doubled(e.delta.y)]]
    ELSE e

(* the entity after SPEED, key s *)
Slower(e) ==
    IF e.delta.x > Cells(MIN_ENTITY_DELTA_X) /\ e.delta.y > Cells(MIN_ENTITY_DELTA_Y)
    THEN [e EXCEPT !.delta = [x |-> Halved(e.delta.x), y |-> Halved(e.delta.y)]]
    ELSE e

(* Dispatch with the keys r and s of NORMAL honoured in every state *)
Dispatch_shared_keys(key, cmd, e, ctx) ==
    IF cmd = QUIT THEN [command |-> QUIT, e |-> e]
    ELSE IF key = "r" THEN [command |-> RESIZE, e |-> e]
    ELSE IF key = "s" /\ cmd # RESIZE THEN [command |-> SPEED, e |-> e]
    ELSE IF cmd = RESIZE /\ key = "w" THEN [command |-> cmd, e |-> Grow(e, ctx)]
    ELSE IF cmd = RESIZE /\ key = "s" THEN [command |-> cmd, e |-> Shrink(e)]
    ELSE IF cmd = SPEED /\ key = "w" THEN [command |-> cmd, e |-> Faster(e, ctx)]
    ELSE [command |-> cmd, e |-> e]

(* switch (command): the key table of the current state *)
Dispatch(key, cmd, e, ctx) ==
    IF cmd = QUIT THEN [command |-> QUIT, e |-> e]
    ELSE IF cmd = NORMAL THEN
        IF key = "r" THEN [command |-> RESIZE, e |-> e]
        ELSE IF key = "s" THEN [command |-> SPEED, e |-> e]
        ELSE [command |-> cmd, e |-> e]
    ELSE IF cmd = RESIZE THEN
        IF key = "w" THEN [command |-> cmd, e |-> Grow(e, ctx)]
        ELSE IF key = "s" THEN [command |-> cmd, e |-> Shrink(e)]
        ELSE [command |-> cmd, e |-> e]
    ELSE
        IF key = "w" THEN [command |-> cmd, e |-> Faster(e, ctx)]
        ELSE IF key = "s" THEN [command |-> cmd, e |-> Slower(e)]
        ELSE [command |-> cmd, e |-> e]

(* handle_command with the current state's table consulted before the     *)
(* global keys                                                            *)
handle_command_table_first(key, cmd, e, ctx) ==
    IF cmd = QUIT THEN [command |-> QUIT, e |-> e]
    ELSE IF key = "q" THEN [command |-> QUIT, e |-> e]
    ELSE IF key = "n" THEN [command |-> NORMAL, e |-> e]
    ELSE Dispatch(key, cmd, e, ctx)

(* handle_command taking EOF (no key waiting) for end of input and quitting *)
handle_command_eof_quits(key, cmd, e, ctx) ==
    IF key = "q" \/ key = EOF THEN [command |-> QUIT, e |-> e]
    ELSE IF key = "n" THEN [command |-> NORMAL, e |-> e]
    ELSE Dispatch(key, cmd, e, ctx)

(* handle_command(command, e) when getchar returns key: the state returned *)
(* and the entity left behind                                              *)
handle_command(key, cmd, e, ctx) ==
    IF key = "q" THEN [command |-> QUIT, e |-> e]
    ELSE IF key = "n" THEN [command |-> NORMAL, e |-> e]
    ELSE Dispatch(key, cmd, e, ctx)

(* The fixed point holds the result of this call exactly: a halving that   *)
(* is taken divides two even numbers.                                      *)
Exact(key, cmd, e) ==
    (key = "s" /\ cmd = SPEED /\ Slower(e) # e)
        => (e.delta.x % 2 = 0 /\ e.delta.y % 2 = 0)

---------------------------------------------------------------------------
(* The environment *)

(* Window sizes TIOCGWINSZ reports: <<ws_row, ws_col>> *)
WinSizes == { <<25, 81>>, <<5, 7>>, <<4, 4>> }

Ctx(ws) == [rows |-> ws[1], cols |-> ws[2]]

NoCall == [op |-> "none", command |-> NORMAL, e |-> DEFAULT_ENTITY_PROPERTIES,
           ctx |-> Ctx(<<0, 0>>)]

NoInfo == [command |-> "none", width |-> 0, height |-> 0]

---------------------------------------------------------------------------
(* The program: main() and the calls it makes *)

Init ==
    /\ pc = "init_tty"
    /\ tty_context = Ctx(<<0, 0>>)
    /\ saved = "none"
    /\ term = "orig"
    /\ restores = 0
    /\ graphics = "none"
    /\ handler = FALSE
    /\ ball = DEFAULT_ENTITY_PROPERTIES
    /\ command = NORMAL
    /\ c = "none"
    /\ pre = NoCall
    /\ pending = << >>
    /\ painted = {}
    /\ info = NoInfo
    /\ frames = 0
    /\ resizes = 0
    /\ exit_status = -1

(* die(): the message, then exit(1).  Nothing is registered with atexit.   *)
Die ==
    /\ pc' = "exited"
    /\ exit_status' = 1

(* init_tty(): whichever call fails first ends the process *)
InitTty ==
    /\ pc = "init_tty"
    /\ \E fail \in {"isatty", "tcgetattr", "fcntl", "tcsetattr", "ioctl", "none"},
          ws \in WinSizes :
          /\ saved' = IF fail \in {"isatty", "tcgetattr"} THEN saved ELSE "orig"
          /\ term' = IF fail \in {"ioctl", "none"} THEN "raw" ELSE term
          /\ IF fail = "none"
             THEN /\ tty_context' = Ctx(ws)
                  /\ pc' = "start_graphics"
                  /\ UNCHANGED exit_status
             ELSE /\ Die
                  /\ UNCHANGED tty_context
    /\ UNCHANGED << restores, graphics, handler, ball, command, c, pre, painted,
                    info, frames, resizes >>
    /\ UNCHANGED pending

StartGraphics ==
    /\ pc = "start_graphics"
    /\ graphics' = "started"
    /\ pc' = "signal"
    /\ UNCHANGED << tty_context, saved, term, restores, handler, ball, command, c,
                    pre, painted, info, frames, resizes, exit_status >>
    /\ UNCHANGED pending

(* signal(SIGWINCH, resize_window) *)
InstallHandler ==
    /\ pc = "signal"
    /\ \E ok \in BOOLEAN :
          IF ok THEN /\ handler' = TRUE
                     /\ pc' = "clear"
                     /\ UNCHANGED exit_status
                ELSE /\ Die
                     /\ UNCHANGED handler
    /\ UNCHANGED << tty_context, saved, term, restores, graphics, ball, command,
                    c, pre, painted, info, frames, resizes >>
    /\ UNCHANGED pending

(* top of the loop: clear() *)
Clear ==
    /\ pc = "clear"
    /\ frames < MaxFrames
    /\ painted' = {}
    /\ info' = NoInfo
    /\ pc' = "entity_move"
    /\ UNCHANGED << tty_context, saved, term, restores, graphics, handler, ball,
                    command, c, pre, frames, resizes, exit_status >>
    /\ UNCHANGED pending

EntityMove ==
    /\ pc = "entity_move"
    /\ pre' = [op |-> "entity_move", command |-> command, e |-> ball,
               ctx |-> tty_context]
    /\ ball' = entity_move(ball, tty_context)
    /\ pc' = "entity_draw"
    /\ UNCHANGED << tty_context, saved, term, restores, graphics, handler,
                    command, c, painted, info, frames, resizes, exit_status >>
    /\ UNCHANGED pending

(* entity_draw: the loops start *)
EntityDraw ==
    /\ pc = "entity_draw"
    /\ pending' = entity_cells(ball)
    /\ pc' = "draw_loop"
    /\ UNCHANGED << tty_context, saved, term, restores, graphics, handler, ball,
                    command, c, pre, painted, info, frames, resizes, exit_status >>

(* entity_draw: the next cell is tested with out_of_bounds and skipped, or *)
(* passes; after the last cell entity_draw returns                         *)
DrawLoop ==
    /\ pc = "draw_loop"
    /\ IF pending = << >>
       THEN /\ pc' = "draw_info_line"
            /\ UNCHANGED pending
       ELSE IF out_of_bounds([x |-> Cells(Head(pending)[1]),
                              y |-> Cells(Head(pending)[2])], tty_context)
       THEN /\ pending' = Tail(pending)
            /\ UNCHANGED pc
       ELSE /\ pc' = "draw_cell"
            /\ UNCHANGED pending
    /\ UNCHANGED << tty_context, saved, term, restores, graphics, handler, ball,
                    command, c, pre, painted, info, frames, resizes, exit_status >>

(* draw_cell(pos, WHITE, ' ') for the cell that passed the test *)
DrawCell ==
    /\ pc = "draw_cell"
    /\ painted' = painted \cup { Head(pending) }
    /\ pending' = Tail(pending)
    /\ pc' = "draw_loop"
    /\ UNCHANGED << tty_context, saved, term, restores, graphics, handler, ball,
                    command, c, pre, info, frames, resizes, exit_status >>

DrawInfoLine ==
    /\ pc = "draw_info_line"
    /\ info' = [command |-> command, width |-> DISPLAY_WIDTH(tty_context),
                height |-> DISPLAY_HEIGHT(tty_context)]
    /\ pc' = "handle_command"
    /\ UNCHANGED << tty_context, saved, term, restores, graphics, handler, ball,
                    command, c, pre, painted, frames, resizes, exit_status >>
    /\ UNCHANGED pending

(* command = handle_command(command, &ball); if (command == QUIT) break; *)
HandleCommand ==
    /\ pc = "handle_command"
    /\ \E key \in Keys :
          /\ Exact(key, command, ball)
          /\ LET r == handle_command(key, command, ball, tty_context)
             IN  /\ c' = key
                 /\ pre' = [op |-> "handle_command", command |-> command,
                            e |-> ball, ctx |-> tty_context]
                 /\ command' = r.command
                 /\ ball' = r.e
                 /\ pc' = IF r.command = QUIT THEN "end_graphics" ELSE "clear"
    /\ frames' = frames + 1
    /\ UNCHANGED << tty_context, saved, term, restores, graphics, handler,
                    painted, info, resizes, exit_status >>
    /\ UNCHANGED pending

EndGraphics ==
    /\ pc = "end_graphics"
    /\ graphics' = "ended"
    /\ painted' = {}
    /\ info' = NoInfo
    /\ pc' = "deinit_tty"
    /\ UNCHANGED << tty_context, saved, term, restores, handler, ball, command,
                    c, pre, frames, resizes, exit_status >>
    /\ UNCHANGED pending

(* deinit_tty(), then main returns 0 *)
DeinitTty ==
    /\ pc = "deinit_tty"
    /\ \E ok \in BOOLEAN :
          IF ok THEN /\ term' = saved
                     /\ restores' = restores + 1
                     /\ pc' = "exited"
                     /\ exit_status' = 0
                ELSE /\ Die
                     /\ UNCHANGED << term, restores >>
    /\ UNCHANGED << tty_context, saved, graphics, handler, ball, command, c, pre,
                    painted, info, frames, resizes >>
    /\ UNCHANGED pending

(* resize_window(SIGWINCH), delivered between any two calls of main *)
ResizeWindow ==
    /\ handler
    /\ pc # "exited"
    /\ resizes < MaxResizes
    /\ resizes' = resizes + 1
    /\ \E ok \in BOOLEAN, ws \in WinSizes :
          IF ok THEN /\ tty_context' = Ctx(ws)
                     /\ painted' = {}
                     /\ info' = NoInfo
                     /\ UNCHANGED << pc, exit_status >>
                ELSE /\ Die
                     /\ UNCHANGED << tty_context, painted, info >>
    /\ UNCHANGED << saved, term, restores, graphics, handler, ball, command, c,
                    pre, frames >>
    /\ UNCHANGED pending

Next ==
    \/ InitTty
    \/ StartGraphics
    \/ InstallHandler
    \/ Clear
    \/ EntityMove
    \/ EntityDraw
    \/ DrawLoop
    \/ DrawCell
    \/ DrawInfoLine
    \/ HandleCommand
    \/ EndGraphics
    \/ DeinitTty
    \/ ResizeWindow

Spec == Init /\ [][Next]_vars

---------------------------------------------------------------------------
(* handle_command on its own: any state, any entity, any key, a fixed      *)
(* viewport.  The entities cover the sizes and velocities on both sides of *)
(* every guard of handle_command.                                          *)

Slow == Unit \div 200

CmdSizes == { [x |-> Cells(1), y |-> Cells(1)], [x |-> Cells(2), y |-> Cells(1)],
              [x |-> Cells(3), y |-> Cells(2)], [x |-> Cells(4), y |-> Cells(3)] }

CmdDeltas == { 0, Slow, -Slow, Cells(2), -Cells(2), 512 * Slow, Cells(4),
               Cells(5) }

Running ==
    /\ saved = "orig"
    /\ term = "raw"
    /\ restores = 0
    /\ graphics = "started"
    /\ handler = FALSE
    /\ c = "none"
    /\ pre = NoCall
    /\ pending = << >>
    /\ painted = {}
    /\ info = NoInfo
    /\ frames = 0
    /\ resizes = 0
    /\ exit_status = -1

InitCmd ==
    /\ pc = "handle_command"
    /\ tty_context \in { Ctx(ws) : ws \in WinSizes }
    /\ command \in command_state_t
    /\ ball \in { [DEFAULT_ENTITY_PROPERTIES EXCEPT !.size = sz,
                                                    !.delta = [x |-> dx, y |-> dy]] :
                     sz \in CmdSizes, dx \in CmdDeltas, dy \in CmdDeltas }
    /\ Running

CmdCall ==
    /\ pc = "handle_command"
    /\ frames < MaxCalls
    /\ \E key \in Keys :
          /\ Exact(key, command, ball)
          /\ LET r == handle_command(key, command, ball, tty_context)
             IN  /\ c' = key
                 /\ pre' = [op |-> "handle_command", command |-> command,
                            e |-> ball, ctx |-> tty_context]
                 /\ command' = r.command
                 /\ ball' = r.e
    /\ frames' = frames + 1
    /\ UNCHANGED << pc, tty_context, saved, term, restores, graphics, handler,
                    painted, info, resizes, exit_status >>
    /\ UNCHANGED pending

SpecCmd == InitCmd /\ [][CmdCall]_vars

---------------------------------------------------------------------------
(* entity_move on its own: a fixed viewport, entities at, next to and      *)
(* beyond each boundary, velocities slower and faster than a cell a frame  *)

MoveCoords(bound) ==
    { Cells(1), Cells(1) + Slow, Cells(2), Cells(bound - 3), Cells(bound - 2),
      Cells(bound - 1) - Slow, Cells(bound - 1), Cells(bound), Cells(60) }

MoveSizes == { [x |-> Cells(1), y |-> Cells(1)], [x |-> Cells(2), y |-> Cells(1)],
               [x |-> Cells(3), y |-> Cells(2)] }

MoveDeltas == { 0, Slow, -Slow, Cells(1), -Cells(1), 256 * Slow, -256 * Slow,
                1024 * Slow }

InitMove ==
    /\ pc = "entity_move"
    /\ tty_context \in { Ctx(ws) : ws \in WinSizes }
    /\ command = NORMAL
    /\ ball \in { [pos |-> [x |-> px, y |-> py], size |-> sz,
                   delta |-> [x |-> dx, y |-> dy]] :
                     px \in MoveCoords(DISPLAY_WIDTH(tty_context)),
                     py \in MoveCoords(DISPLAY_HEIGHT(tty_context)),
                     sz \in MoveSizes, dx \in MoveDeltas, dy \in MoveDeltas }
    /\ Running

MoveCall ==
    /\ pc = "entity_move"
    /\ frames < MaxCalls
    /\ pre' = [op |-> "entity_move", command |-> command, e |-> ball,
               ctx |-> tty_context]
    /\ ball' = entity_move(ball, tty_context)
    /\ frames' = frames + 1
    /\ UNCHANGED << pc, tty_context, saved, term, restores, graphics, handler,
                    command, c, painted, info, resizes, exit_status >>
    /\ UNCHANGED pending

SpecMove == InitMove /\ [][MoveCall]_vars

---------------------------------------------------------------------------
(* Properties of handle_command, checked under SpecCmd *)

Called == pre.op = "handle_command"

Max(a, b) == IF a >= b THEN a ELSE b

(* C1: in every state (NORMAL, RESIZE, SPEED, QUIT) and for every entity,  *)
(* key q returns QUIT and key n returns NORMAL, and neither changes the    *)
(* entity's size or velocity.                                              *)
GlobalOverrides ==
    (Called /\ c \in {"q", "n"}) =>
        /\ command = (IF c = "q" THEN QUIT ELSE NORMAL)
        /\ ball.size = pre.e.size
        /\ ball.delta = pre.e.delta

GlobalOverridesWitness ==
    /\ Called
    /\ c = "n" /\ pre.command = QUIT /\ command = NORMAL
    /\ ball.size = pre.e.size /\ ball.delta = pre.e.delta

ModeTransitions ==
    (Called /\ c \notin {"q", "n"} /\ pre.command # QUIT) =>
        command = (IF pre.command = NORMAL /\ c = "r" THEN RESIZE
                   ELSE IF pre.command = NORMAL /\ c = "s" THEN SPEED
                   ELSE pre.command)

ModeTransitionsWitness ==
    /\ Called
    /\ c = "s" /\ pre.command = RESIZE /\ command = RESIZE
    /\ ball.size # pre.e.size

(* C10 as stated: a grow that is accepted leaves the size strictly below   *)
(* half the viewport in both dimensions.                                   *)
GrowStaysBelowHalf ==
    (Called /\ pre.command = RESIZE /\ c = "w" /\ ball.size # pre.e.size) =>
        /\ 2 * ball.size.x < Cells(DISPLAY_WIDTH(tty_context))
        /\ 2 * ball.size.y < Cells(DISPLAY_HEIGHT(tty_context))

(* C10, amended: in RESIZE key w adds one cell to both dimensions exactly  *)
(* when the size before the key is strictly below the integer half of the  *)
(* viewport in both dimensions; the size after it can equal that half, and *)
(* no command raises a dimension above the larger of its previous value    *)
(* and that half.                                                          *)
GrowGuardsCurrentSize ==
    Called =>
        LET halfw == Cells(CDiv(DISPLAY_WIDTH(tty_context), 2))
            halfh == Cells(CDiv(DISPLAY_HEIGHT(tty_context), 2))
            s0    == pre.e.size
        IN  /\ (pre.command = RESIZE /\ c = "w") =>
                  ball.size = (IF s0.x < halfw /\ s0.y < halfh
                               THEN [x |-> s0.x + Cells(1), y |-> s0.y + Cells(1)]
                               ELSE s0)
            /\ ball.size.x <= Max(s0.x, halfw)
            /\ ball.size.y <= Max(s0.y, halfh)

GrowGuardsCurrentSizeWitness ==
    /\ Called
    /\ pre.command = RESIZE /\ c = "w"
    /\ ball.size.y = pre.e.size.y + Cells(1)
    /\ 2 * ball.size.y = Cells(DISPLAY_HEIGHT(tty_context))

---------------------------------------------------------------------------
(* Properties of entity_move, checked under SpecMove *)

Moved == pre.op = "entity_move"

Abs(n) == IF n < 0 THEN -n ELSE n

(* a velocity a run can have: both components one of 0.005 * 2^k, k >= 0 *)
RunVelocity(d) ==
    /\ Abs(d.x) = Abs(d.y)
    /\ \E k \in 0 .. 12 : Abs(d.x) = Slow * (2 ^ k)

(* position and far corner of e within [1, bound - 1] on both axes *)
BoxInViewport(e, ctx) ==
    /\ Cells(1) <= e.pos.x
    /\ e.pos.x + e.size.x <= Cells(DISPLAY_WIDTH(ctx) - 1)
    /\ Cells(1) <= e.pos.y
    /\ e.pos.y + e.size.y <= Cells(DISPLAY_HEIGHT(ctx) - 1)

(* position and far corner of e within [1, bound) on both axes *)
BoxBelowBounds(e, ctx) ==
    /\ Cells(1) <= e.pos.x
    /\ e.pos.x + e.size.x < Cells(DISPLAY_WIDTH(ctx))
    /\ Cells(1) <= e.pos.y
    /\ e.pos.y + e.size.y < Cells(DISPLAY_HEIGHT(ctx))

LeadingEdgeClear(e, ctx) ==
    /\ Cells(1) < e.pos.x + e.delta.x
    /\ e.pos.x + e.delta.x < Cells(DISPLAY_WIDTH(ctx))
    /\ Cells(1) < e.pos.y + e.delta.y
    /\ e.pos.y + e.delta.y < Cells(DISPLAY_HEIGHT(ctx))

FarCornerAtWidth(e, ctx) ==
    /\ e.pos.x + e.size.x = Cells(DISPLAY_WIDTH(ctx))
    /\ e.delta.x > 0

ReflectedAtWidth(e0, e1, ctx) ==
    /\ e1.delta.x < 0
    /\ e1.pos.x + e1.size.x = Cells(DISPLAY_WIDTH(ctx) - 1)
    /\ e1.pos.x = Cells(DISPLAY_WIDTH(ctx) - 1) - e0.size.x

TrailingEdgeReflects ==
    (Moved /\ FarCornerAtWidth(pre.e, pre.ctx)
           /\ Cells(1) <= pre.e.pos.x
           /\ Cells(1) <= pre.e.pos.y
           /\ pre.e.pos.y + pre.e.size.y < Cells(DISPLAY_HEIGHT(pre.ctx))) =>
        ReflectedAtWidth(pre.e, ball, pre.ctx)

(* C7, amended: the same, for an entity whose tentative position           *)
(* (position + velocity) does not itself collide on either axis, i.e. when *)
(* the leading-edge test of that frame finds nothing.                      *)
TrailingEdgeReflectsWhenLeadingClear ==
    (Moved /\ FarCornerAtWidth(pre.e, pre.ctx) /\ LeadingEdgeClear(pre.e, pre.ctx)) =>
        ReflectedAtWidth(pre.e, ball, pre.ctx)

TrailingEdgeReflectsWitness ==
    /\ Moved
    /\ FarCornerAtWidth(pre.e, pre.ctx)
    /\ LeadingEdgeClear(pre.e, pre.ctx)
    /\ ReflectedAtWidth(pre.e, ball, pre.ctx)

(* C8: entity_move keeps the size, and changes the velocity only by        *)
(* negating one component, chosen by the first test that collides in the   *)
(* order leading x, leading y, trailing x, trailing y; with none, the      *)
(* velocity is unchanged.                                                  *)
ReflectionPriority ==
    Moved =>
        LET e0 == pre.e
            w  == Cells(DISPLAY_WIDTH(pre.ctx))
            h  == Cells(DISPLAY_HEIGHT(pre.ctx))
            lx == e0.pos.x + e0.delta.x
            ly == e0.pos.y + e0.delta.y
            tx == lx + e0.size.x
            ty == ly + e0.size.y
            HitX(v) == v <= Cells(1) \/ v >= w
            HitY(v) == v <= Cells(1) \/ v >= h
            negx == [x |-> -e0.delta.x, y |-> e0.delta.y]
            negy == [x |-> e0.delta.x, y |-> -e0.delta.y]
        IN  /\ ball.size = e0.size
            /\ ball.delta = (IF HitX(lx) THEN negx
                             ELSE IF HitY(ly) THEN negy
                             ELSE IF HitX(tx) THEN negx
                             ELSE IF HitY(ty) THEN negy
                             ELSE e0.delta)

(* both axes collide at the leading edge: only x is reflected *)
ReflectionPriorityWitness ==
    /\ Moved
    /\ collision_x(pre.e.pos.x + pre.e.delta.x, pre.ctx)
    /\ collision_y(pre.e.pos.y + pre.e.delta.y, pre.ctx)
    /\ pre.e.delta.x # 0 /\ pre.e.delta.y # 0
    /\ ball.delta.x = -pre.e.delta.x
    /\ ball.delta.y = pre.e.delta.y

---------------------------------------------------------------------------
(* Properties of the whole program, checked under Spec *)

Exited == pc = "exited"

(* C3: once a frame has read q (the state is QUIT), the process ends with  *)
(* graphics ended, the captured attributes restored and exit status 0.     *)
QuitExitsClean ==
    (Exited /\ command = QUIT) =>
        /\ exit_status = 0
        /\ graphics = "ended"
        /\ term = "orig"

(* C4: whenever the process has ended after raw mode was entered, the      *)
(* captured attributes were put back exactly once.                         *)
RawModeEntered == term = "raw" \/ restores > 0

RestoredOnEveryExit ==
    (Exited /\ RawModeEntered) => (restores = 1 /\ term = "orig")

(* C6 as stated: default entity, viewport 80 x 24 throughout, first frame  *)
(* with no key: state NORMAL, position (1.005, 60.005), velocity unchanged.*)
FirstFrameNoKey ==
    /\ pc = "clear" /\ frames = 1 /\ c = EOF /\ resizes = 0
    /\ DISPLAY_WIDTH(tty_context) = 80 /\ DISPLAY_HEIGHT(tty_context) = 24

FirstFrameMovesFreely ==
    FirstFrameNoKey =>
        /\ command = NORMAL
        /\ ball.pos = [x |-> Cells(1) + Slow, y |-> Cells(60) + Slow]
        /\ ball.delta = [x |-> Slow, y |-> Slow]

(* C6, amended: in that frame the state stays NORMAL and x advances by     *)
(* 0.005 to 1.005, but y = 60.005 is at or beyond display_height = 24, so  *)
(* the leading edge collides on y: the y velocity is negated to -0.005 and *)
(* y is clamped to display_height - 1 = 23.  The size is unchanged.        *)
FirstFrameBouncesOnY ==
    FirstFrameNoKey =>
        /\ command = NORMAL
        /\ ball.pos = [x |-> Cells(1) + Slow, y |-> Cells(23)]
        /\ ball.delta = [x |-> Slow, y |-> -Slow]
        /\ ball.size = [x |-> Cells(2), y |-> Cells(1)]

FirstFrameBouncesOnYWitness ==
    /\ FirstFrameNoKey
    /\ pre.op = "handle_command" /\ pre.command = NORMAL
    /\ ball.pos.y = Cells(23)
    /\ ball.delta.y = -Slow

---------------------------------------------------------------------------
(* More properties of handle_command, checked under SpecCmd *)

Min(a, b) == IF a <= b THEN a ELSE b

(* C11 as stated: a shrink that is accepted leaves the size strictly above *)
(* the minimum of 1 cell in both dimensions.                               *)
ShrinkStaysAboveMin ==
    (Called /\ pre.command = RESIZE /\ c = "s" /\ ball.size # pre.e.size) =>
        /\ ball.size.x > Cells(1)
        /\ ball.size.y > Cells(1)

(* C11, amended: in RESIZE key s takes one cell off both dimensions        *)
(* exactly when the size before the key is strictly above 1 cell in both   *)
(* dimensions; the size after it can equal 1, and no command lowers a      *)
(* dimension below the smaller of its previous value and 1.                *)
ShrinkGuardsCurrentSize ==
    Called =>
        LET s0 == pre.e.size
        IN  /\ (pre.command = RESIZE /\ c = "s") =>
                  ball.size = (IF s0.x > Cells(1) /\ s0.y > Cells(1)
                               THEN [x |-> s0.x - Cells(1), y |-> s0.y - Cells(1)]
                               ELSE s0)
            /\ ball.size.x >= Min(s0.x, Cells(1))
            /\ ball.size.y >= Min(s0.y, Cells(1))

ShrinkGuardsCurrentSizeWitness ==
    /\ Called
    /\ pre.command = RESIZE /\ c = "s"
    /\ pre.e.size = [x |-> Cells(3), y |-> Cells(2)]
    /\ ball.size = [x |-> Cells(2), y |-> Cells(1)]

(* C12 as stated, already for the velocities of a run: a doubling that is  *)
(* accepted leaves both components below the viewport extent.              *)
DoubledStaysBelowExtent ==
    (Called /\ pre.command = SPEED /\ c = "w" /\ ball.delta # pre.e.delta
            /\ RunVelocity(pre.e.delta)) =>
        /\ ball.delta.x < Cells(DISPLAY_WIDTH(tty_context))
        /\ ball.delta.y < Cells(DISPLAY_HEIGHT(tty_context))

(* C12, amended: in SPEED key w doubles both components (0 becoming 2)     *)
(* exactly when both components before the key are below the viewport      *)
(* extent; a component after the key is at most its previous value, or     *)
(* below twice the extent, or the 2 that a zero component becomes.         *)
DoublingGuardsCurrentVelocity ==
    Called =>
        LET d0 == pre.e.delta
            w  == Cells(DISPLAY_WIDTH(tty_context))
            h  == Cells(DISPLAY_HEIGHT(tty_context))
            Twice(d) == IF d = 0 THEN Cells(2) ELSE 2 * d
        IN  /\ (pre.command = SPEED /\ c = "w") =>
                  ball.delta = (IF d0.x < w /\ d0.y < h
                                THEN [x |-> Twice(d0.x), y |-> Twice(d0.y)]
                                ELSE d0)
            /\ ball.delta.x <= d0.x \/ ball.delta.x < 2 * w \/ ball.delta.x = Cells(2)
            /\ ball.delta.y <= d0.y \/ ball.delta.y < 2 * h \/ ball.delta.y = Cells(2)

(* a doubling carries a velocity of a run to the extent or past it *)
DoublingGuardsCurrentVelocityWitness ==
    /\ Called
    /\ pre.command = SPEED /\ c = "w"
    /\ RunVelocity(pre.e.delta) /\ pre.e.delta.y > 0
    /\ ball.delta.y = 2 * pre.e.delta.y
    /\ ball.delta.y >= Cells(DISPLAY_HEIGHT(tty_context))

(* C13: in SPEED, for a velocity with both components non-zero (of either *)
(* sign) that is within bounds before and after the doubling, key w        *)
(* followed at once by key s gives back the velocity there was before w.   *)
DoublingAccepted ==
    /\ Called
    /\ pre.command = SPEED /\ c = "w"
    /\ pre.e.delta.x # 0 /\ pre.e.delta.y # 0
    /\ ball.delta = [x |-> 2 * pre.e.delta.x, y |-> 2 * pre.e.delta.y]
    /\ Abs(ball.delta.x) < Cells(DISPLAY_WIDTH(tty_context))
    /\ Abs(ball.delta.y) < Cells(DISPLAY_HEIGHT(tty_context))

HalvingUndoesDoubling ==
    [][ (DoublingAccepted /\ frames' = frames + 1 /\ c' = "s")
            => ball'.delta = pre.e.delta ]_vars

(* C14: in SPEED, when key w is accepted (both components below the        *)
(* viewport extent), a component that is zero becomes 2 and every other    *)
(* component becomes twice its value.                                      *)
ZeroDoublesToTwo ==
    (Called /\ pre.command = SPEED /\ c = "w"
            /\ pre.e.delta.x < Cells(DISPLAY_WIDTH(tty_context))
            /\ pre.e.delta.y < Cells(DISPLAY_HEIGHT(tty_context))) =>
        /\ ball.delta.x = (IF pre.e.delta.x = 0 THEN Cells(2) ELSE 2 * pre.e.delta.x)
        /\ ball.delta.y = (IF pre.e.delta.y = 0 THEN Cells(2) ELSE 2 * pre.e.delta.y)
        /\ ball.delta.x # 0 /\ ball.delta.y # 0

ZeroDoublesToTwoWitness ==
    /\ Called
    /\ pre.command = SPEED /\ c = "w"
    /\ pre.e.delta.x = 0 /\ pre.e.delta.y = -Slow
    /\ ball.delta.x = Cells(2) /\ ball.delta.y = -2 * Slow

(* C15: in every state, when getchar returns EOF (no key waiting) or a key *)
(* other than q, n, r, s, w, handle_command returns the state it was given *)
(* and leaves position, size and velocity as they were.                    *)
OtherKeysChangeNothing ==
    (Called /\ c \notin {"q", "n", "r", "s", "w"}) =>
        /\ command = pre.command
        /\ ball = pre.e

OtherKeysChangeNothingWitness ==
    /\ Called
    /\ c = EOF /\ pre.command = SPEED /\ command = SPEED
    /\ ball = pre.e

---------------------------------------------------------------------------
(* More properties of the whole program, checked under Spec *)

(* C16: a window change never alters the viewport in the middle of a       *)
(* frame: the status line of a frame shows the display_width and           *)
(* display_height that entity_move used in that frame.                     *)
FrameUsesOneViewport ==
    (pc = "handle_command" /\ Moved /\ info # NoInfo) =>
        /\ info.width = DISPLAY_WIDTH(pre.ctx)
        /\ info.height = DISPLAY_HEIGHT(pre.ctx)

(* C17: every cell painted lies inside the current viewport:               *)
(* 1 <= column < display_width and 1 <= row < display_height.              *)
PaintedInsideViewport ==
    \A cell \in painted :
        /\ 1 <= cell[1] /\ cell[1] < DISPLAY_WIDTH(tty_context)
        /\ 1 <= cell[2] /\ cell[2] < DISPLAY_HEIGHT(tty_context)

(* C18: in every state of a run size.y >= 1 and size.x = size.y + 1, and   *)
(* in RESIZE key s leaves the entity as it is whenever one of its          *)
(* dimensions is already at the minimum 1.                                 *)
SizeKeepsShape ==
    /\ ball.size.y >= Cells(MIN_ENTITY_HEIGHT)
    /\ ball.size.x = ball.size.y + Cells(1)
    /\ (/\ Called /\ pre.command = RESIZE /\ c = "s"
        /\ \/ pre.e.size.x = Cells(MIN_ENTITY_WIDTH)
           \/ pre.e.size.y = Cells(MIN_ENTITY_HEIGHT))
       => ball = pre.e

(* key s has been refused in RESIZE with the height at the minimum *)
SizeKeepsShapeWitness ==
    /\ Called /\ pre.command = RESIZE /\ c = "s"
    /\ pre.e.size.y = Cells(MIN_ENTITY_HEIGHT)
    /\ pre.e.size.x > Cells(MIN_ENTITY_WIDTH)
    /\ ball = pre.e

---------------------------------------------------------------------------
(* More properties of entity_move, checked under SpecMove *)

(* the entity is at most display_width - 2 by display_height - 2 *)
FitsWithMargin(e, ctx) ==
    /\ e.size.x <= Cells(DISPLAY_WIDTH(ctx) - 2)
    /\ e.size.y <= Cells(DISPLAY_HEIGHT(ctx) - 2)

(* C19: for an entity of at most display_width - 2 by display_height - 2,  *)
(* after every call of entity_move, from any position and any velocity,    *)
(* 1 <= pos.x < display_width and 1 <= pos.y < display_height, so the      *)
(* top-left cell is not out of bounds.                                     *)
PositionInsideAfterMove ==
    (Moved /\ FitsWithMargin(pre.e, pre.ctx)) =>
        /\ Cells(1) <= ball.pos.x /\ ball.pos.x < Cells(DISPLAY_WIDTH(pre.ctx))
        /\ Cells(1) <= ball.pos.y /\ ball.pos.y < Cells(DISPLAY_HEIGHT(pre.ctx))
        /\ ~out_of_bounds([x |-> Cells(ToInt(ball.pos.x)),
                           y |-> Cells(ToInt(ball.pos.y))], pre.ctx)

(* entity_move has brought the default y = 60 into a 24-row viewport *)
PositionInsideAfterMoveWitness ==
    /\ Moved /\ FitsWithMargin(pre.e, pre.ctx)
    /\ pre.e.pos.y = Cells(60) /\ DISPLAY_HEIGHT(pre.ctx) = 24
    /\ ball.pos.y = Cells(23)

---------------------------------------------------------------------------
(* The velocity in a run, checked under Spec *)

(* n is 0.005 * 2^k cells for an integer k, down to the smallest velocity  *)
(* the unit represents                                                     *)
ScaledSlow(n) == \E j \in 0 .. 24 : n = 2 ^ j

(* C20: in every state of a run delta.x and delta.y are non-zero and       *)
(* |delta.x| = |delta.y| = 0.005 * 2^k for an integer k, and key w in      *)
(* SPEED never meets a zero component.                                     *)
VelocityKeepsShape ==
    /\ ball.delta.x # 0 /\ ball.delta.y # 0
    /\ Abs(ball.delta.x) = Abs(ball.delta.y)
    /\ ScaledSlow(Abs(ball.delta.x))
    /\ (Called /\ pre.command = SPEED /\ c = "w")
          => (pre.e.delta.x # 0 /\ pre.e.delta.y # 0)

(* key w has doubled a velocity whose y component a bounce had negated *)
VelocityKeepsShapeWitness ==
    /\ Called /\ pre.command = SPEED /\ c = "w"
    /\ pre.e.delta = [x |-> Slow, y |-> -Slow]
    /\ ball.delta = [x |-> 2 * Slow, y |-> -(2 * Slow)]

=============================================================================
